---- MODULE Spec2Model ----
(***************************************************************************)
(* A model of QueryBuilder (src/src/app/Helpers/DatatableBuilder.ts): the  *)
(* SQL statement generator and response translator for server-side         *)
(* DataTables requests.                                                    *)
(*                                                                         *)
(* Representation.  A JavaScript string is a sequence of characters, each  *)
(* character a TLA+ string.  A character that a TLA+ string can hold is    *)
(* itself (TAB, LF, CR and FF are the escapes "\t", "\n", "\r", "\f"); the  *)
(* others are named: NUL, BS and SUB, which the sanitizer knows, and the   *)
(* white space characters beyond ASCII, named by their code points.        *)
(* An optional value (a property that may be undefined, or a value that    *)
(* may be null) is a sequence of length 0 or 1: None, Some(x).             *)
(* A number that may be NaN is an optional integer (None is NaN).          *)
(***************************************************************************)
EXTENDS Integers, Sequences, FiniteSets

VARIABLES self, pc, req, queries, qres, result, sanIn, sanLen, sanOut, sanPc

vars == <<self, pc, req, queries, qres, result, sanIn, sanLen, sanOut, sanPc>>

builderVars == <<self, pc, req, queries, qres, result>>

sanVars == <<sanIn, sanLen, sanOut, sanPc>>

-----------------------------------------------------------------------------
(* Optional values and characters *)

None == <<>>

Some(x) == <<x>>

IsSome(o) == Len(o) > 0

Val(o) == o[1]

NUL == "NUL"

BS == "BS"

TAB == "\t"

SUB == "SUB"

LF == "\n"

CR == "\r"

Digits == <<"0", "1", "2", "3", "4", "5", "6", "7", "8", "9">>

IsDigit(c) == \E i \in 1..10 : Digits[i] = c

DigitVal(c) == (CHOOSE i \in 1..10 : Digits[i] = c) - 1

(* String(n) for a non-negative integer n: its decimal digits. *)
RECURSIVE NatToString(_)
NatToString(n) ==
    IF n < 10 THEN <<Digits[n + 1]>>
    ELSE NatToString(n \div 10) \o <<Digits[(n % 10) + 1]>>

(* String(n), and the text a number has when + appends it to a string. *)
NumToString(n) == IF n < 0 THEN <<"-">> \o NatToString(-n) ELSE NatToString(n)

(* The value of the longest prefix of s made of decimal digits; acc is the *)
(* value read so far.                                                      *)
RECURSIVE DigitsPrefixValue(_, _)
DigitsPrefixValue(s, acc) ==
    IF s = <<>> \/ ~IsDigit(Head(s)) THEN acc
    ELSE DigitsPrefixValue(Tail(s), acc * 10 + DigitVal(Head(s)))

FF == "\f"

VT == "U+000B"

NBSP == "U+00A0"

ZWNBSP == "U+FEFF"

LS == "U+2028"

PS == "U+2029"

(* The space separators (Unicode category Zs) other than the space and the *)
(* no-break space.                                                         *)
SpaceSeparators ==
    {"U+1680", "U+2000", "U+2001", "U+2002", "U+2003", "U+2004", "U+2005",
     "U+2006", "U+2007", "U+2008", "U+2009", "U+200A", "U+202F", "U+205F",
     "U+3000"}

(* StrWhiteSpaceChar of ECMAScript: the white space and the line           *)
(* terminators that parseInt skips at the start of its argument.           *)
StrWhiteSpaceChar ==
    {" ", TAB, VT, FF, NBSP, ZWNBSP, LF, CR, LS, PS} \cup SpaceSeparators

RECURSIVE StripLeadingSpace(_)
StripLeadingSpace(s) ==
    IF s # <<>> /\ Head(s) \in StrWhiteSpaceChar THEN StripLeadingSpace(Tail(s))
    ELSE s

(* parseInt(s, 10) of a string: leading white space, an optional sign,     *)
(* then decimal digits up to the first other character; NaN (None) when no *)
(* digit is there.                                                         *)
digitsValue(u, sign) ==
    IF u = <<>> \/ ~IsDigit(Head(u)) THEN None
    ELSE Some(sign * DigitsPrefixValue(u, 0))

signedValue(t) ==
    IF t # <<>> /\ Head(t) \in {"-", "+"}
    THEN digitsValue(Tail(t), IF Head(t) = "-" THEN -1 ELSE 1)
    ELSE digitsValue(t, 1)

parseInt(s) == signedValue(StripLeadingSpace(s))

(* parseInt(x, 10) of an optional number: the argument is converted to a   *)
(* string first ("undefined" when absent).                                 *)
parseIntOfNumber(o) ==
    IF IsSome(o) THEN parseInt(NumToString(Val(o)))
    ELSE parseInt(<<"u", "n", "d", "e", "f", "i", "n", "e", "d">>)

RECURSIVE Join(_, _)
Join(parts, sep) ==
    IF parts = <<>> THEN <<>>
    ELSE IF Len(parts) = 1 THEN parts[1]
    ELSE parts[1] \o sep \o Join(Tail(parts), sep)

(* The text of an optional string under + : "undefined" when absent. *)
Text(o) == IF IsSome(o) THEN Val(o) ELSE <<"u", "n", "d", "e", "f", "i", "n", "e", "d">>

(* Truthiness of an optional string: present and not empty. *)
Truthy(o) == IsSome(o) /\ Val(o) # <<>>

-----------------------------------------------------------------------------
(* JavaScript values handed to sanitize *)

JStr(s) == [t |-> "string", s |-> s, n |-> 0]

JNum(n) == [t |-> "number", s |-> <<>>, n |-> n]

JUndefined == [t |-> "undefined", s |-> <<>>, n |-> 0]

JNull == [t |-> "null", s |-> <<>>, n |-> 0]

JObject == [t |-> "object", s |-> <<>>, n |-> 0]

(* !v *)
Falsy(v) ==
    \/ v.t \in {"undefined", "null"}
    \/ v.t = "number" /\ v.n = 0
    \/ v.t = "string" /\ v.s = <<>>

DefaultMaxLen == 256

(* The character class of the regular expression of sanitize. *)
SanitizeClass == {NUL, BS, TAB, SUB, LF, CR, "\"", "'", "\\", "%"}

escapeCharNoPercent(c) ==
    CASE c = NUL -> <<"\\", "0">>
      [] c = BS -> <<"\\", "b">>
      [] c = TAB -> <<"\\", "t">>
      [] c = SUB -> <<"\\", "z">>
      [] c = LF -> <<"\\", "n">>
      [] c = CR -> <<"\\", "r">>
      [] c \in {"\"", "'", "\\"} -> <<"\\", c>>
      [] OTHER -> <<c>>

(* The replacement function of sanitize: the switch on the matched character. *)
escapeChar(c) ==
    CASE c = NUL -> <<"\\", "0">>
      [] c = BS -> <<"\\", "b">>
      [] c = TAB -> <<"\\", "t">>
      [] c = SUB -> <<"\\", "z">>
      [] c = LF -> <<"\\", "n">>
      [] c = CR -> <<"\\", "r">>
      [] c \in {"\"", "'", "\\", "%"} -> <<"\\", c>>

(* str.replace(/[...]/g, fn): every character of the class is replaced by  *)
(* what fn returns for it, the others are kept (computed by halves, to     *)
(* keep the evaluation shallow on long strings).                           *)
RECURSIVE replaceAll(_)
replaceAll(s) ==
    IF s = <<>> THEN <<>>
    ELSE IF Len(s) = 1
         THEN (IF s[1] \in SanitizeClass THEN escapeChar(s[1]) ELSE s)
    ELSE LET h == Len(s) \div 2
         IN  replaceAll(SubSeq(s, 1, h)) \o replaceAll(SubSeq(s, h + 1, Len(s)))

(* sanitize(str, len); len is an optional number. *)
sanitize(str, len) ==
    LET l == IF IsSome(len) /\ Val(len) # 0 THEN Val(len) ELSE DefaultMaxLen
    IN  IF Falsy(str) \/ (str.t = "string" /\ Len(str.s) < 1) THEN str
        ELSE IF str.t # "string" \/ Len(str.s) > l THEN JNull
        ELSE JStr(replaceAll(str.s))

(* sanitize of a string with the default length: null is None. *)
stringOrNone(v) == IF v.t = "string" THEN Some(v.s) ELSE None

sanitizeStr(s) == stringOrNone(sanitize(JStr(s), None))

-----------------------------------------------------------------------------
(* The builder: constructor and statement partials *)

(* The constructor: this.self is built from the options.  The function     *)
(* references stored in self (buildQuery, parseResponse, ...) never change *)
(* and are left out.                                                       *)
Constructor(options) ==
    [sTableName |-> options.sTableName,
     sCountColumnName |-> options.sCountColumnName,
     sDatabaseOrSchema |-> options.sDatabaseOrSchema,
     aSearchColumns |->
         IF IsSome(options.aSearchColumns) THEN Val(options.aSearchColumns) ELSE <<>>,
     sSelectSql |-> options.sSelectSql,
     sFromSql |-> options.sFromSql,
     sWhereAndSql |-> options.sWhereAndSql,
     sDateColumnName |-> options.sDateColumnName,
     dateFrom |-> options.dateFrom,
     dateTo |-> options.dateTo,
     oRequestQuery |-> options.oRequestQuery,
     sAjaxDataProp |-> <<"d", "a", "t", "a">>,
     dbType |-> options.dbType]

IsOracle(s) == s.dbType = Some(<<"o", "r", "a", "c", "l", "e">>)

IsPostgres(s) == s.dbType = Some(<<"p", "o", "s", "t", "g", "r", "e", "s">>)

buildSetDatabaseOrSchemaStatement(s) ==
    IF Truthy(s.sDatabaseOrSchema)
    THEN IF IsOracle(s)
         THEN Some(<<"A", "L", "T", "E", "R", " ", "S", "E", "S", "S", "I", "O", "N", " ",
                     "S", "E", "T", " ", "C", "U", "R", "R", "E", "N", "T", "_",
                     "S", "C", "H", "E", "M", "A", " ", "=", " ">>
                   \o Val(s.sDatabaseOrSchema))
         ELSE Some(<<"U", "S", "E", " ">> \o Val(s.sDatabaseOrSchema))
    ELSE None

(* Date.prototype.toISOString for a date given as the number of whole days *)
(* since 1970-01-01T00:00:00Z, within January 1970.                        *)
toISOString(d) ==
    <<"1", "9", "7", "0", "-", "0", "1", "-">>
    \o (IF d + 1 < 10 THEN <<"0">> ELSE <<>>) \o NatToString(d + 1)
    \o <<"T", "0", "0", ":", "0", "0", ":", "0", "0", ".", "0", "0", "0", "Z">>

(* && binds tighter than ||: (sDateColumnName && dateFrom) || dateTo. *)
buildDatePartial(s) ==
    IF (Truthy(s.sDateColumnName) /\ IsSome(s.dateFrom)) \/ IsSome(s.dateTo)
    THEN IF IsSome(s.dateFrom) /\ IsSome(s.dateTo)
         THEN Some(Text(s.sDateColumnName)
                   \o <<" ", "B", "E", "T", "W", "E", "E", "N", " ", "'">>
                   \o toISOString(Val(s.dateFrom))
                   \o <<"'", " ", "A", "N", "D", " ", "'">>
                   \o toISOString(Val(s.dateTo)) \o <<"'">>)
         ELSE IF IsSome(s.dateFrom)
         THEN Some(Text(s.sDateColumnName) \o <<" ", ">", "=", " ", "'">>
                   \o toISOString(Val(s.dateFrom)) \o <<"'">>)
         ELSE IF IsSome(s.dateTo)
         THEN Some(Text(s.sDateColumnName) \o <<" ", "<", "=", " ", "'">>
                   \o toISOString(Val(s.dateTo)) \o <<"'">>)
         ELSE None
    ELSE None

buildILIKESearch(colName, searchVal) ==
    <<"C", "A", "S", "T", "(">> \o colName \o <<" ", "a", "s", " ", "t", "e", "x", "t", ")">>
    \o <<" ", "I", "L", "I", "K", "E", " ", "'", "%">> \o searchVal \o <<"%", "'">>

buildLIKESearch(colName, searchVal) ==
    colName \o <<" ", "L", "I", "K", "E", " ", "'", "%">> \o searchVal \o <<"%", "'">>

(* The columns buildSearchArray iterates: the configured search columns    *)
(* (strings) for a global search when there are any, otherwise the         *)
(* request's columns (_u.each over undefined iterates nothing).            *)
customColumns(s, global) == s.aSearchColumns # <<>> /\ global

searchList(s, r, global) ==
    IF customColumns(s, global) THEN s.aSearchColumns
    ELSE IF IsSome(r.columns) THEN Val(r.columns) ELSE <<>>

(* What the callback pushes for sanitized colName and searchVal: one       *)
(* statement when both are truthy, nothing otherwise.                      *)
searchPush(s, colName, searchVal) ==
    IF Truthy(colName) /\ Truthy(searchVal)
    THEN <<IF IsPostgres(s)
           THEN buildILIKESearch(Val(colName), Val(searchVal))
           ELSE buildLIKESearch(Val(colName), Val(searchVal))>>
    ELSE <<>>

(* The _u.each callback of buildSearchArray on one element. *)
searchCallback(s, r, global, column) ==
    IF customColumns(s, global)
    THEN searchPush(s, sanitizeStr(column), sanitizeStr(Val(r.search).value))
    ELSE IF column.searchable = <<"t", "r", "u", "e">>
    THEN searchPush(s, sanitizeStr(column.name),
                    sanitizeStr(IF global THEN Val(r.search).value
                                ELSE column.search.value))
    ELSE <<>>

(* _u.each over list[i..]. *)
RECURSIVE searchEach(_, _, _, _, _)
searchEach(s, r, global, list, i) ==
    IF i > Len(list) THEN <<>>
    ELSE searchCallback(s, r, global, list[i]) \o searchEach(s, r, global, list, i + 1)

buildSearchArrayNoFallback(s, r, global) ==
    IF global /\ ~customColumns(s, global) THEN <<>>
    ELSE searchEach(s, r, global, searchList(s, r, global), 1)

buildSearchArray(s, r, global) == searchEach(s, r, global, searchList(s, r, global), 1)

(* buildSearchArray throws a TypeError when the callback reads              *)
(* requestQuery.search.value of a request without search.                   *)
buildSearchArrayThrows(s, r, global) ==
    /\ global
    /\ ~IsSome(r.search)
    /\ \E i \in 1..Len(searchList(s, r, global)) :
          \/ customColumns(s, global)
          \/ searchList(s, r, global)[i].searchable = <<"t", "r", "u", "e">>

(* if (list.length) searches.push('(' + list.join(sep) + ')') *)
pushGroup(list, sep) ==
    IF Len(list) > 0 THEN <<<<"(">> \o Join(list, sep) \o <<")">>>> ELSE <<>>

buildSearchPartial(s, r) ==
    Join(pushGroup(buildSearchArray(s, r, FALSE), <<" ", "A", "N", "D", " ">>)
         \o pushGroup(buildSearchArray(s, r, TRUE), <<" ", "O", "R", " ">>),
         <<" ", "A", "N", "D", " ">>)

(* if (x) sWheres.push(x), for a string x and for an optional string. *)
pushString(x) == IF x # <<>> THEN <<x>> ELSE <<>>

pushOptional(o) == IF Truthy(o) THEN <<Val(o)>> ELSE <<>>

whereClause(sWheres) ==
    IF Len(sWheres) > 0
    THEN <<" ", "W", "H", "E", "R", "E", " ", "(">>
         \o Join(sWheres, <<")", " ", "A", "N", "D", " ", "(">>) \o <<")">>
    ELSE <<>>

buildWherePartial(s, r) ==
    whereClause(pushString(buildSearchPartial(s, r))
                \o pushOptional(s.sWhereAndSql)
                \o pushOptional(buildDatePartial(s)))

buildCountStatement(s, r) ==
    <<"S", "E", "L", "E", "C", "T", " ", "C", "O", "U", "N", "T", "(">>
    \o (IF Truthy(s.sSelectSql) THEN s.sTableName \o <<".", "i", "d">>
        ELSE IF Truthy(s.sCountColumnName) THEN Val(s.sCountColumnName)
        ELSE <<"i", "d">>)
    \o <<")", " ", "F", "R", "O", "M", " ">>
    \o (IF Truthy(s.sFromSql) THEN Val(s.sFromSql) ELSE s.sTableName)
    \o buildWherePartial(s, r)

(* buildOrderingPartial throws a TypeError when order is missing or empty, *)
(* when columns is missing, or when columns has no entry at order[0].column. *)
buildOrderingPartialThrows(r) ==
    \/ ~IsSome(r.order)
    \/ Val(r.order) = <<>>
    \/ ~IsSome(r.columns)
    \/ Val(r.order)[1].column \notin 0..(Len(Val(r.columns)) - 1)

(* Only order[0] is looked at: orderQuery is the one-element array [order[0]]. *)
buildOrderingPartial(r) ==
    LET order == Val(r.order)[1]
        column == Val(r.columns)[order.column + 1]
        query == IF column.orderable = <<"t", "r", "u", "e">> /\ column.name # <<>>
                 THEN <<column.name \o <<" ">> \o order.dir>>
                 ELSE <<>>
    IN  IF Len(query) > 0
        THEN <<" ", "O", "R", "D", "E", "R", " ", "B", "Y", " ">> \o Join(query, <<",", " ">>)
        ELSE <<>>

DEFAULT_LIMIT == 100

(* a >= 0 and a > 0 for a number that may be NaN. *)
GeZero(o) == IsSome(o) /\ Val(o) >= 0

GtZero(o) == IsSome(o) /\ Val(o) > 0

(* (len > 0) ? String(len) : String(DEFAULT_LIMIT) *)
lengthOrDefault(len) == NumToString(IF GtZero(len) THEN Val(len) ELSE DEFAULT_LIMIT)

(* Lines 204-212 with the dialects exchanged. *)
limitClauseSwapped(s, r, start) ==
    IF GeZero(start)
    THEN IF IsSome(r.length) /\ Val(r.length) < 0 THEN <<" ">>
         ELSE IF IsPostgres(s)
         THEN <<" ", "L", "I", "M", "I", "T", " ">> \o NumToString(Val(start))
              \o <<",", " ">> \o lengthOrDefault(parseIntOfNumber(r.length))
         ELSE <<" ", "O", "F", "F", "S", "E", "T", " ">> \o NumToString(Val(start))
              \o <<" ", "L", "I", "M", "I", "T", " ">>
              \o lengthOrDefault(parseIntOfNumber(r.length))
    ELSE <<>>

(* Lines 204-212: start is the parsed requestQuery.start. *)
limitClause(s, r, start) ==
    IF GeZero(start)
    THEN IF IsSome(r.length) /\ Val(r.length) < 0 THEN <<" ">>
         ELSE IF IsPostgres(s)
         THEN <<" ", "O", "F", "F", "S", "E", "T", " ">> \o NumToString(Val(start))
              \o <<" ", "L", "I", "M", "I", "T", " ">>
              \o lengthOrDefault(parseIntOfNumber(r.length))
         ELSE <<" ", "L", "I", "M", "I", "T", " ">> \o NumToString(Val(start))
              \o <<",", " ">> \o lengthOrDefault(parseIntOfNumber(r.length))
    ELSE <<>>

buildLimitPartialSwapped(s, r) ==
    IF IsSome(r.start) /\ ~IsOracle(s)
    THEN limitClauseSwapped(s, r, parseIntOfNumber(r.start))
    ELSE <<>>

buildLimitPartial(s, r) ==
    IF IsSome(r.start) /\ ~IsOracle(s)
    THEN limitClause(s, r, parseIntOfNumber(r.start))
    ELSE <<>>

buildSelectPartialBare(s) ==
    (IF Truthy(s.sSelectSql) THEN Val(s.sSelectSql) ELSE <<"S", "E", "L", "E", "C", "T", " ", "*">>)
    \o <<" ", "F", "R", "O", "M", " ">>
    \o (IF Truthy(s.sFromSql) THEN Val(s.sFromSql) ELSE s.sTableName)

buildSelectPartial(s) ==
    <<"S", "E", "L", "E", "C", "T", " ">>
    \o (IF Truthy(s.sSelectSql) THEN Val(s.sSelectSql) ELSE <<"*">>)
    \o <<" ", "F", "R", "O", "M", " ">>
    \o (IF Truthy(s.sFromSql) THEN Val(s.sFromSql) ELSE s.sTableName)

-----------------------------------------------------------------------------
(* buildQuery and parseResponse *)

NullQueries ==
    [changeDatabaseOrSchema |-> None, recordsTotal |-> None,
     recordsFiltered |-> None, select |-> None]

(* Lines 252-259: the ROWNUM wrap of the select statement for Oracle. *)
oracleWrap(s, query, start, len) ==
        IF IsOracle(s) /\ GeZero(len) /\ GeZero(start)
        THEN <<"S", "E", "L", "E", "C", "T", " ", "*", " ", "F", "R", "O", "M", " ", "(",
               "S", "E", "L", "E", "C", "T", " ", "a", ".", "*", ",", " ",
               "R", "O", "W", "N", "U", "M", " ", "r", "n", "u", "m", " ",
               "F", "R", "O", "M", " ", "(">>
             \o query \o <<")", " ">> \o <<"a", ")">>
             \o <<" ", "W", "H", "E", "R", "E", " ", "r", "n", "u", "m", " ",
                  "B", "E", "T", "W", "E", "E", "N", " ">>
             \o NumToString(Val(start) + 1) \o <<" ", "A", "N", "D", " ">>
             \o NumToString(Val(start) + Val(len))
        ELSE query

(* The select statement of buildQuery, lines 248-260. *)
selectStatement(s, r) ==
    oracleWrap(s,
               buildSelectPartial(s) \o buildWherePartial(s, r)
               \o buildOrderingPartial(r) \o buildLimitPartial(s, r),
               parseIntOfNumber(r.start), parseIntOfNumber(r.length))

(* The queries object of lines 240-260, given searchString, useStmt, the   *)
(* count statement (buildCountStatement(requestQuery) is called for        *)
(* recordsTotal and again, with the same argument and the same self, for   *)
(* recordsFiltered) and the select statement.                              *)
statements(searchString, useStmt, countStatement, select) ==
    [changeDatabaseOrSchema |-> IF Truthy(useStmt) THEN useStmt ELSE None,
     recordsTotal |-> Some(countStatement),
     recordsFiltered |-> IF ~Falsy(searchString) THEN Some(countStatement) ELSE None,
     select |-> Some(select)]

(* buildQuery(requestQuery) on a builder whose self is s.  The outcome:    *)
(* threw (a TypeError left buildQuery), stored (line 239 was reached and   *)
(* self.oRequestQuery was assigned), and the queries returned.             *)
buildQuery(s, r) ==
    IF r.kind \notin {"object", "null"}
    THEN [threw |-> FALSE, stored |-> FALSE, queries |-> NullQueries]
    ELSE IF r.kind = "null"
    THEN [threw |-> TRUE, stored |-> FALSE, queries |-> NullQueries]
    ELSE IF \/ buildSearchArrayThrows(s, r, FALSE)
            \/ buildSearchArrayThrows(s, r, TRUE)
            \/ buildOrderingPartialThrows(r)
    THEN [threw |-> TRUE, stored |-> TRUE, queries |-> NullQueries]
    ELSE [threw |-> FALSE, stored |-> TRUE,
          queries |->
              statements(sanitize(IF IsSome(r.search) THEN JStr(Val(r.search).value)
                                  ELSE JStr(<<>>), None),
                         buildSetDatabaseOrSchemaStatement(s),
                         buildCountStatement(s, r),
                         selectStatement(s, r))]

(* A value of the database layer: an array of rows (a row is the sequence  *)
(* of its values), or something that is not an array (the number 0, null). *)
ArrayValue(rows) == [isArray |-> TRUE, rows |-> rows]

NotArray == [isArray |-> FALSE, rows |-> <<>>]

(* extractResponseVal(res): the first value of the first row, or undefined. *)
extractResponseVal(res) ==
    IF res.isArray /\ Len(res.rows) > 0 /\ Len(res.rows[1]) > 0
    THEN Some(res.rows[1][1])
    ELSE None

(* x || 0 for an optional number. *)
OrZero(o) == IF IsSome(o) THEN Val(o) ELSE 0

(* _u.keys(queryResult).length of a result object. *)
keyCount(q) ==
    q.extraKeys
    + (IF IsSome(q.recordsTotal) THEN 1 ELSE 0)
    + (IF IsSome(q.recordsFiltered) THEN 1 ELSE 0)
    + (IF IsSome(q.select) THEN 1 ELSE 0)

(* parseResponse(queryResult) on a builder whose self is s.  The counts    *)
(* and the rows are read from the local _queryResult of line 271, never    *)
(* from the parameter: the parameter only decides, by its key count,       *)
(* whether they are read at all.                                           *)
(* Lines 274-279: the draw of the request stored in self.oRequestQuery. *)
drawOf(oQuery) ==
    IF IsSome(oQuery) /\ Val(oQuery).kind = "object" /\ IsSome(Val(oQuery).draw)
    THEN parseInt(Val(Val(oQuery).draw))
    ELSE Some(0)

(* Lines 280-287, given the local _queryResult and the draw. *)
responseOf(queryResult, _queryResult, draw) ==
    IF queryResult.isObject /\ keyCount(queryResult) > 1
    THEN [recordsFiltered |->
              IF _queryResult.recordsFiltered.isArray
              THEN OrZero(extractResponseVal(_queryResult.recordsFiltered))
              ELSE OrZero(extractResponseVal(_queryResult.recordsTotal)),
          recordsTotal |-> OrZero(extractResponseVal(_queryResult.recordsTotal)),
          draw |-> draw,
          data |-> _queryResult.select]
    ELSE [recordsFiltered |-> 0, recordsTotal |-> 0, draw |-> draw, data |-> None]

parseResponse(s, queryResult) ==
    responseOf(queryResult,
               [recordsFiltered |-> NotArray, recordsTotal |-> NotArray, select |-> None],
               drawOf(s.oRequestQuery))

-----------------------------------------------------------------------------
(* Requests, options and database results the runs draw from *)

Request(draw, search, columns, order, start, length) ==
    [kind |-> "object", draw |-> draw, search |-> search, columns |-> columns,
     order |-> order, start |-> start, length |-> length]

(* A request that is not an object: typeof gives kind ("number",           *)
(* "undefined"), or it is null (typeof null is "object").                  *)
NonObject(kind) ==
    [kind |-> kind, draw |-> None, search |-> None, columns |-> None,
     order |-> None, start |-> None, length |-> None]

Column(name, searchable, orderable, searchValue) ==
    [name |-> name, searchable |-> searchable, orderable |-> orderable,
     search |-> [value |-> searchValue]]

Order(column, dir) == [column |-> column, dir |-> dir]

sTrue == <<"t", "r", "u", "e">>

sFalse == <<"f", "a", "l", "s", "e">>

tName == <<"n", "a", "m", "e">>

tEmail == <<"e", "m", "a", "i", "l">>

tAge == <<"a", "g", "e">>

tAnn == <<"a", "n", "n">>

tAsc == <<"a", "s", "c">>

tDesc == <<"d", "e", "s", "c">>

tUsers == <<"u", "s", "e", "r", "s">>

ColumnLists ==
    {<<Column(tName, sTrue, sTrue, <<>>)>>,
     <<Column(tName, sTrue, sTrue, tAnn)>>,
     <<Column(<<"a", "'">>, sTrue, sTrue, <<>>)>>,
     <<Column(tName, sFalse, sFalse, tAnn)>>,
     <<Column(tName, sTrue, sTrue, <<>>), Column(tAge, sFalse, sTrue, <<"4", "%">>)>>,
     <<Column(<<>>, sTrue, sTrue, tAnn), Column(tAge, sTrue, sFalse, <<"4">>)>>}

Searches == {[value |-> <<>>], [value |-> tAnn], [value |-> <<"a", "%">>]}

Orders ==
    {<<Order(0, tAsc)>>, <<Order(1, tDesc)>>,
     <<Order(0, <<"a", "s", "c", ";", "'">>), Order(1, tAsc)>>}

Pagings == {<<None, None>>, <<Some(0), Some(10)>>, <<Some(10), Some(20)>>,
            <<Some(0), Some(0)>>, <<Some(5), Some(-1)>>, <<Some(-1), Some(10)>>,
            <<Some(3), None>>}

WellFormedRequests ==
    {Request(Some(<<"1">>), Some(s), Some(cl), Some(o), p[1], p[2]) :
        s \in Searches, cl \in ColumnLists, o \in Orders, p \in Pagings}

OneColumn == <<Column(tName, sTrue, sTrue, tAnn)>>

MalformedRequests ==
    {NonObject("number"), NonObject("undefined"), NonObject("null"),
     Request(None, None, None, None, None, None),
     Request(Some(<<"1">>), Some([value |-> tAnn]), None, Some(<<Order(0, tAsc)>>),
             Some(0), Some(10)),
     Request(Some(<<"1">>), Some([value |-> tAnn]), Some(OneColumn), None,
             Some(0), Some(10)),
     Request(Some(<<"1">>), Some([value |-> tAnn]), Some(OneColumn), Some(<<>>),
             Some(0), Some(10)),
     Request(Some(<<"1">>), None, Some(OneColumn), Some(<<Order(0, tAsc)>>),
             Some(0), Some(10)),
     Request(Some(<<"1">>), None, Some(<<>>), Some(<<Order(0, tAsc)>>),
             Some(0), Some(10)),
     Request(Some(<<"1">>), Some([value |-> tAnn]), Some(OneColumn),
             Some(<<Order(-1, tAsc)>>), Some(0), Some(10))}

Requests == WellFormedRequests \cup MalformedRequests

Options(dbType, searchColumns, dateColumn, dateFrom, dateTo, overrides, oRequestQuery) ==
    [sTableName |-> tUsers,
     sCountColumnName |-> IF overrides = "count" THEN Some(<<"u", "i", "d">>) ELSE None,
     sDatabaseOrSchema |-> IF overrides = "none" THEN None ELSE Some(<<"a", "p", "p">>),
     aSearchColumns |-> searchColumns,
     sSelectSql |->
         IF overrides = "all" THEN Some(<<"u", "s", "e", "r", "s", ".", "*">>) ELSE None,
     sFromSql |->
         IF overrides = "all"
         THEN Some(<<"u", "s", "e", "r", "s", " ", "J", "O", "I", "N", " ",
                     "r", "o", "l", "e", "s">>)
         ELSE None,
     sWhereAndSql |->
         IF overrides = "none" THEN None ELSE Some(<<"a", "c", "t", "i", "v", "e", "=", "1">>),
     sDateColumnName |-> dateColumn,
     dateFrom |-> dateFrom,
     dateTo |-> dateTo,
     oRequestQuery |-> oRequestQuery,
     dbType |-> dbType]

DbTypes == {None, Some(<<"m", "y", "s", "q", "l">>),
            Some(<<"p", "o", "s", "t", "g", "r", "e", "s">>),
            Some(<<"o", "r", "a", "c", "l", "e">>)}

SearchColumnOptions == {None, Some(<<>>), Some(<<tName, tEmail>>), Some(<<<<>>>>)}

AllOptions ==
    {Options(db, sc, dc, df, dt, ov, None) :
        db \in DbTypes, sc \in SearchColumnOptions,
        dc \in {None, Some(<<"c", "r", "e", "a", "t", "e", "d">>)},
        df \in {None, Some(0)}, dt \in {None, Some(14)},
        ov \in {"none", "count", "all"}}

(* The requests, options and results of the runs with several clients. *)
SessionRequests ==
    {Request(d, Some([value |-> <<>>]), Some(OneColumn), Some(<<Order(0, tAsc)>>),
             Some(0), Some(10)) : d \in {None, Some(<<"5">>), Some(<<FF, " ", "7">>)}}
    \cup {NonObject("number"), NonObject("null")}

SessionOptions ==
    {Options(None, None, None, None, None, "none", None),
     Options(None, None, None, None, None, "none",
             Some(Request(Some(<<"9">>), None, None, None, None, None)))}

QueryResult(recordsTotal, recordsFiltered, select, extraKeys) ==
    [isObject |-> TRUE, recordsTotal |-> recordsTotal,
     recordsFiltered |-> recordsFiltered, select |-> select, extraKeys |-> extraKeys]

NoQueryResult ==
    [isObject |-> FALSE, recordsTotal |-> None, recordsFiltered |-> None,
     select |-> None, extraKeys |-> 0]

SampleRows == <<<<1, 30>>, <<2, 41>>>>

QueryResults ==
    {NoQueryResult,
     QueryResult(Some(ArrayValue(<<<<42>>>>)), None, None, 0),
     QueryResult(Some(ArrayValue(<<<<42>>>>)), None, Some(SampleRows), 0),
     QueryResult(Some(ArrayValue(<<<<42>>>>)), Some(ArrayValue(<<<<7>>>>)),
                 Some(SampleRows), 0),
     QueryResult(Some(ArrayValue(<<>>)), Some(ArrayValue(<<<<7>>>>)), Some(<<>>), 0),
     QueryResult(Some(NotArray), None, Some(SampleRows), 1)}

-----------------------------------------------------------------------------
(* The runs *)

NumClients == 2

Clients == 1..NumClients

ZeroResponse == [recordsFiltered |-> 0, recordsTotal |-> 0, draw |-> Some(0), data |-> None]

SanIdle ==
    /\ sanIn = JUndefined
    /\ sanLen = None
    /\ sanOut = JUndefined
    /\ sanPc = "idle"

BuilderInit(optionSet) ==
    /\ self \in {Constructor(o) : o \in optionSet}
    /\ pc = [c \in Clients |-> "idle"]
    /\ req = [c \in Clients |-> NonObject("undefined")]
    /\ queries = [c \in Clients |-> NullQueries]
    /\ qres = [c \in Clients |-> NoQueryResult]
    /\ result = [c \in Clients |-> ZeroResponse]

(* Client c calls buildQuery(r) on the shared builder. *)
BuildQuery(c, r) ==
    /\ pc[c] = "idle"
    /\ LET out == buildQuery(self, r)
       IN  /\ self' = IF out.stored THEN [self EXCEPT !.oRequestQuery = Some(r)] ELSE self
           /\ queries' = [queries EXCEPT ![c] = out.queries]
           /\ pc' = [pc EXCEPT ![c] = IF out.threw THEN "threw" ELSE "built"]
    /\ req' = [req EXCEPT ![c] = r]
    /\ UNCHANGED <<qres, result>>
    /\ UNCHANGED sanVars

(* Client c, whose buildQuery returned, calls parseResponse(q). *)
ParseResponse(c, q) ==
    /\ pc[c] = "built"
    /\ result' = [result EXCEPT ![c] = parseResponse(self, q)]
    /\ qres' = [qres EXCEPT ![c] = q]
    /\ pc' = [pc EXCEPT ![c] = "done"]
    /\ UNCHANGED <<self, req, queries>>
    /\ UNCHANGED sanVars

Init == BuilderInit(SessionOptions) /\ SanIdle

Next ==
    \E c \in Clients :
        \/ \E r \in SessionRequests : BuildQuery(c, r)
        \/ \E q \in QueryResults : ParseResponse(c, q)

Spec == Init /\ [][Next]_vars

(* One buildQuery call, over all options and requests. *)
QueryInit == BuilderInit(AllOptions) /\ SanIdle

QueryNext == \E r \in Requests : BuildQuery(1, r)

QuerySpec == QueryInit /\ [][QueryNext]_vars

-----------------------------------------------------------------------------
(* Inputs of the sanitizer runs *)

MaxStrLen == 2

SanAlphabet == SanitizeClass \cup {"a", "b", "0"}

Rep(c, n) == [i \in 1..n |-> c]

SanStrings ==
    UNION {[1..k -> SanAlphabet] : k \in 0..MaxStrLen}
    \cup {Rep("a", DefaultMaxLen), Rep("a", DefaultMaxLen + 1),
          Rep("a", DefaultMaxLen - 1) \o <<"%">>}

SanInputs ==
    {JStr(s) : s \in SanStrings} \cup {JUndefined, JNull, JNum(0), JNum(5), JObject}

SanLens == {None, Some(0), Some(1), Some(MaxStrLen)}

BuilderIdle ==
    /\ self = <<>>
    /\ pc = <<>>
    /\ req = <<>>
    /\ queries = <<>>
    /\ qres = <<>>
    /\ result = <<>>

SanInit ==
    /\ BuilderIdle
    /\ sanIn \in SanInputs
    /\ sanLen \in SanLens
    /\ sanOut = JUndefined
    /\ sanPc = "call"

Sanitize ==
    /\ sanPc = "call"
    /\ sanOut' = sanitize(sanIn, sanLen)
    /\ sanPc' = "return"
    /\ UNCHANGED <<sanIn, sanLen>>
    /\ UNCHANGED builderVars

SanNext == Sanitize

SanSpec == SanInit /\ [][SanNext]_vars

-----------------------------------------------------------------------------
(* Properties of sanitize *)

(* The characters the contract of sanitize lists. *)
ContractSet == {NUL, BS, TAB, SUB, LF, CR, "\"", "'", "\\", "%"}

ListedBefore(s, i) == Cardinality({j \in 1..(i - 1) : s[j] \in ContractSet})

(* The character that follows the backslash in MySQL's escape of c. *)
EscapeLetter(c) ==
    CASE c = NUL -> "0"
      [] c = BS -> "b"
      [] c = TAB -> "t"
      [] c = SUB -> "z"
      [] c = LF -> "n"
      [] c = CR -> "r"
      [] OTHER -> c

SameChar(c) == c

(* out is in with every listed character replaced by a backslash and       *)
(* Letter of it, and every other character kept, position by position.     *)
EscapedAs(in, out, Letter(_)) ==
    /\ Len(out) = Len(in) + ListedBefore(in, Len(in) + 1)
    /\ \A i \in 1..Len(in) :
          LET k == i + ListedBefore(in, i)
          IN  IF in[i] \in ContractSet
              THEN out[k] = "\\" /\ out[k + 1] = Letter(in[i])
              ELSE out[k] = in[i]

SanitizeContract(maxLen, Letter(_)) ==
    sanPc = "return" =>
        /\ Falsy(sanIn) => sanOut = sanIn
        /\ (~Falsy(sanIn) /\ sanIn.t # "string") => sanOut = JNull
        /\ (sanIn.t = "string" /\ Len(sanIn.s) > maxLen) => sanOut = JNull
        /\ (sanIn.t = "string" /\ Len(sanIn.s) \in 1..maxLen) =>
              /\ sanOut.t = "string"
              /\ EscapedAs(sanIn.s, sanOut.s, Letter)

(* The limit the contract names: maxLen, 256 when it is not given (a       *)
(* maxLen of 0 counts as not given).                                       *)
ContractMaxLen == IF IsSome(sanLen) /\ Val(sanLen) # 0 THEN Val(sanLen) ELSE 256

(* C6, as stated: a falsy value is returned unchanged, a non-string or a   *)
(* string longer than maxLen gives null, and any other string is returned  *)
(* with each listed character prefixed by a backslash and the other        *)
(* characters unchanged.                                                   *)
C6_AsStated == SanitizeContract(ContractMaxLen, SameChar)

(* C6, amended: maxLen is 256 when it is absent or 0; a falsy value is     *)
(* returned unchanged; a truthy non-string or a string longer than maxLen  *)
(* gives null; any other string is returned with NUL, backspace, tab,      *)
(* ctrl-Z, LF and CR replaced by backslash-0, -b, -t, -z, -n and -r, with  *)
(* each double quote, single quote, backslash and percent prefixed by a    *)
(* backslash, and with every other character unchanged.                    *)
C6_SanitizeEscapes == SanitizeContract(ContractMaxLen, EscapeLetter)

(* A returned call that escaped a control character and a percent sign. *)
C6_Witness ==
    /\ sanPc = "return"
    /\ sanIn.t = "string"
    /\ sanOut.t = "string"
    /\ \E i, j \in 1..Len(sanIn.s) : sanIn.s[i] = LF /\ sanIn.s[j] = "%"

-----------------------------------------------------------------------------
(* Text predicates used by the properties *)

StartsWith(s, p) == Len(s) >= Len(p) /\ SubSeq(s, 1, Len(p)) = p

EndsWith(s, p) == Len(s) >= Len(p) /\ SubSeq(s, Len(s) - Len(p) + 1, Len(s)) = p

Occurrences(s, p) == {i \in 1..(Len(s) - Len(p) + 1) : SubSeq(s, i, i + Len(p) - 1) = p}

Contains(s, p) == Occurrences(s, p) # {}

Returned(c) == pc[c] = "built" /\ req[c].kind = "object"

-----------------------------------------------------------------------------
(* Properties of buildQuery *)

(* C4, as stated: for every request passed to buildQuery, the select of    *)
(* the returned StatementSet starts with SELECT.                           *)
C4_AsStated ==
    \A c \in Clients :
        pc[c] = "built" =>
            /\ IsSome(queries[c].select)
            /\ StartsWith(Val(queries[c].select), <<"S", "E", "L", "E", "C", "T">>)

(* C4, amended: whenever buildQuery returns a StatementSet, its select     *)
(* starts with SELECT if the request is an object, and is absent (null)    *)
(* if the request is not an object.                                        *)
C4_SelectStartsWithSelect ==
    \A c \in Clients :
        pc[c] = "built" =>
            IF req[c].kind = "object"
            THEN /\ IsSome(queries[c].select)
                 /\ StartsWith(Val(queries[c].select), <<"S", "E", "L", "E", "C", "T">>)
            ELSE queries[c].select = None

(* buildQuery returned for an object request with a select override. *)
C4_Witness ==
    /\ Returned(1)
    /\ Truthy(self.sSelectSql)
    /\ IsSome(queries[1].select)

(* A request the data model calls well formed. *)
WellFormed(r) ==
    /\ r.kind = "object"
    /\ IsSome(r.columns)
    /\ IsSome(r.order)
    /\ Val(r.order) # <<>>
    /\ Val(r.order)[1].column \in 0..(Len(Val(r.columns)) - 1)

(* C5: buildQuery never throws, and for a request that is not a            *)
(* well-formed object it returns a StatementSet with every field absent.   *)
C5_NeverThrows ==
    \A c \in Clients :
        /\ pc[c] # "threw"
        /\ (pc[c] = "built" /\ ~WellFormed(req[c])) => queries[c] = NullQueries

(* C7: for integer start >= 0 and length > 0 the select statement ends     *)
(* with " LIMIT <start>, <length>" (mysql and default) or with             *)
(* " OFFSET <start> LIMIT <length>" (postgres); for oracle it has no LIMIT *)
(* or OFFSET and is SELECT * FROM (SELECT a.*, ROWNUM rnum FROM (<select>) *)
(* a) WHERE rnum BETWEEN <start+1> AND <start+length>.                     *)
C7_Pagination ==
    \A c \in Clients :
        (/\ Returned(c)
         /\ IsSome(req[c].start) /\ Val(req[c].start) >= 0
         /\ IsSome(req[c].length) /\ Val(req[c].length) > 0) =>
            LET sel == Val(queries[c].select)
                start == Val(req[c].start)
                length == Val(req[c].length)
            IN  IF IsOracle(self)
                THEN /\ StartsWith(sel,
                            <<"S", "E", "L", "E", "C", "T", " ", "*", " ", "F", "R", "O", "M",
                              " ", "(", "S", "E", "L", "E", "C", "T", " ", "a", ".", "*", ",",
                              " ", "R", "O", "W", "N", "U", "M", " ", "r", "n", "u", "m", " ",
                              "F", "R", "O", "M", " ", "(", "S", "E", "L", "E", "C", "T", " ">>)
                     /\ EndsWith(sel,
                            <<")", " ", "a", ")", " ", "W", "H", "E", "R", "E", " ",
                              "r", "n", "u", "m", " ", "B", "E", "T", "W", "E", "E", "N", " ">>
                            \o NumToString(start + 1) \o <<" ", "A", "N", "D", " ">>
                            \o NumToString(start + length))
                     /\ ~Contains(sel, <<"L", "I", "M", "I", "T">>)
                     /\ ~Contains(sel, <<"O", "F", "F", "S", "E", "T">>)
                ELSE IF IsPostgres(self)
                THEN EndsWith(sel, <<" ", "O", "F", "F", "S", "E", "T", " ">>
                                   \o NumToString(start)
                                   \o <<" ", "L", "I", "M", "I", "T", " ">>
                                   \o NumToString(length))
                ELSE EndsWith(sel, <<" ", "L", "I", "M", "I", "T", " ">>
                                   \o NumToString(start) \o <<",", " ">>
                                   \o NumToString(length))

(* buildQuery returned a page of 20 rows from row 10 for Oracle. *)
C7_Witness ==
    /\ Returned(1)
    /\ IsOracle(self)
    /\ req[1].start = Some(10)
    /\ req[1].length = Some(20)

(* The request columns that produce a column search predicate, and the     *)
(* names a global search term is matched against: the configured search    *)
(* columns when there are any, otherwise the request's searchable columns. *)
ColumnPredicates(r) ==
    {i \in 1..Len(Val(r.columns)) :
        /\ Val(r.columns)[i].searchable = sTrue
        /\ Truthy(sanitizeStr(Val(r.columns)[i].name))
        /\ Truthy(sanitizeStr(Val(r.columns)[i].search.value))}

SearchableNamed(r) ==
    {i \in 1..Len(Val(r.columns)) :
        /\ Val(r.columns)[i].searchable = sTrue
        /\ Truthy(sanitizeStr(Val(r.columns)[i].name))}

GlobalTerm(r) == IsSome(r.search) /\ Truthy(sanitizeStr(Val(r.search).value))

ConfiguredNamed(s) ==
    {i \in 1..Len(s.aSearchColumns) : Truthy(sanitizeStr(s.aSearchColumns[i]))}

LikePredicates(stmt) == Cardinality(Occurrences(stmt, <<"L", "I", "K", "E", " ", "'", "%">>))

(* The pattern-match predicate on column name for the term. *)
MatchText(s, name, term) ==
    IF IsPostgres(s)
    THEN <<"C", "A", "S", "T", "(">> \o name \o <<" ", "a", "s", " ", "t", "e", "x", "t", ")",
           " ", "I", "L", "I", "K", "E", " ", "'", "%">> \o term \o <<"%", "'">>
    ELSE name \o <<" ", "L", "I", "K", "E", " ", "'", "%">> \o term \o <<"%", "'">>

(* C8, as stated: with no configured search columns no statement has a     *)
(* predicate for the global search term: its only pattern-match predicates *)
(* are the column searches.                                                *)
C8_AsStated ==
    \A c \in Clients :
        (Returned(c) /\ self.aSearchColumns = <<>>) =>
            /\ LikePredicates(Val(queries[c].select)) = Cardinality(ColumnPredicates(req[c]))
            /\ LikePredicates(Val(queries[c].recordsTotal))
                   = Cardinality(ColumnPredicates(req[c]))

(* C8, amended: the global search term is matched against the configured   *)
(* search columns when there are any and otherwise against the request's   *)
(* columns that are searchable and named.  Every statement has one         *)
(* pattern-match predicate per column search plus, if the sanitized global *)
(* term is not empty, one per such column; with no configured search       *)
(* columns the predicate of each searchable named request column on the    *)
(* global term is in the select statement.                                 *)
C8_GlobalSearchFallsBack ==
    \A c \in Clients :
        Returned(c) =>
            LET global == IF ~GlobalTerm(req[c]) THEN 0
                          ELSE IF self.aSearchColumns # <<>>
                          THEN Cardinality(ConfiguredNamed(self))
                          ELSE Cardinality(SearchableNamed(req[c]))
                expected == Cardinality(ColumnPredicates(req[c])) + global
            IN  /\ LikePredicates(Val(queries[c].select)) = expected
                /\ LikePredicates(Val(queries[c].recordsTotal)) = expected
                /\ (self.aSearchColumns = <<>> /\ GlobalTerm(req[c])) =>
                      \A i \in SearchableNamed(req[c]) :
                          Contains(Val(queries[c].select),
                                   MatchText(self,
                                             Val(sanitizeStr(Val(req[c].columns)[i].name)),
                                             Val(sanitizeStr(Val(req[c].search).value))))

(* No configured search columns, no column search, and a global term that  *)
(* reached the statement through a searchable request column.              *)
C8_Witness ==
    /\ Returned(1)
    /\ self.aSearchColumns = <<>>
    /\ GlobalTerm(req[1])
    /\ ColumnPredicates(req[1]) = {}
    /\ SearchableNamed(req[1]) # {}
    /\ LikePredicates(Val(queries[1].select)) > 0

(* C9: a date-range predicate is in the WHERE clause exactly if            *)
(* dateColumnName is set and dateFrom or dateTo is: BETWEEN with both      *)
(* bounds, >= with dateFrom alone, <= with dateTo alone; none when         *)
(* dateColumnName is not set.                                              *)
C9_DatePredicate ==
    \A c \in Clients :
        Returned(c) =>
            LET sel == Val(queries[c].select)
                col == Truthy(self.sDateColumnName)
                from == IsSome(self.dateFrom)
                to == IsSome(self.dateTo)
            IN  /\ Contains(sel, <<" ", "B", "E", "T", "W", "E", "E", "N", " ", "'">>)
                       <=> (col /\ from /\ to)
                /\ Contains(sel, <<" ", ">", "=", " ", "'">>) <=> (col /\ from /\ ~to)
                /\ Contains(sel, <<" ", "<", "=", " ", "'">>) <=> (col /\ to /\ ~from)

(* C10: every request string in a statement is the output of sanitize: the *)
(* ORDER BY clause carries the sanitized column name and direction, and a  *)
(* global search predicate carries the sanitized term.                     *)
C10_RequestStringsSanitized ==
    \A c \in Clients :
        Returned(c) =>
            LET sel == Val(queries[c].select)
                order == Val(req[c].order)[1]
                column == Val(req[c].columns)[order.column + 1]
            IN  /\ Contains(sel, <<" ", "O", "R", "D", "E", "R", " ", "B", "Y", " ">>) =>
                      /\ Truthy(sanitizeStr(column.name))
                      /\ Truthy(sanitizeStr(order.dir))
                      /\ Contains(sel, <<" ", "O", "R", "D", "E", "R", " ", "B", "Y", " ">>
                                       \o Val(sanitizeStr(column.name)) \o <<" ">>
                                       \o Val(sanitizeStr(order.dir)))
                /\ (GlobalTerm(req[c]) /\ LikePredicates(sel) > 0
                    /\ ColumnPredicates(req[c]) = {}) =>
                      Contains(sel, <<"L", "I", "K", "E", " ", "'", "%">>
                                    \o Val(sanitizeStr(Val(req[c].search).value))
                                    \o <<"%", "'">>)

-----------------------------------------------------------------------------
(* Properties of a builder shared by several clients *)

(* C1: the draw parseResponse returns to a client is the integer value of  *)
(* the draw string of that client's own request, 0 when it has none.       *)
C1_DrawOfOwnRequest ==
    \A c \in Clients :
        (pc[c] = "done" /\ req[c].kind = "object") =>
            result[c].draw = IF IsSome(req[c].draw) THEN parseInt(Val(req[c].draw))
                             ELSE Some(0)

(* C2: buildQuery leaves every field of the builder's self unchanged (only *)
(* buildQuery and parseResponse ever run on it).                           *)
C2_SelfUnchanged == [][self' = self]_vars

(* The first value of the first row of an optional count result, 0 when    *)
(* there is none.                                                          *)
CountOf(o) ==
    IF IsSome(o) /\ Val(o).isArray /\ Len(Val(o).rows) > 0 /\ Len(Val(o).rows[1]) > 0
    THEN Val(o).rows[1][1]
    ELSE 0

(* C3: for a results object with at least two fields, recordsTotal is the  *)
(* first value of the first row of the supplied recordsTotal result,       *)
(* recordsFiltered the same of the supplied recordsFiltered result (or     *)
(* recordsTotal when none is supplied), and data the supplied rows.        *)
C3_ResponseFromResults ==
    \A c \in Clients :
        (pc[c] = "done" /\ qres[c].isObject /\ keyCount(qres[c]) >= 2) =>
            /\ result[c].recordsTotal = CountOf(qres[c].recordsTotal)
            /\ result[c].recordsFiltered =
                   IF IsSome(qres[c].recordsFiltered) THEN CountOf(qres[c].recordsFiltered)
                   ELSE CountOf(qres[c].recordsTotal)
            /\ result[c].data = qres[c].select

====
